---- MODULE Spec2Model ----
(***************************************************************************)
(* State-machine model of the logingest scheduling core:                   *)
(*   src/src/scheduler/scheduler.py          (class Scheduler)             *)
(*   src/src/scheduler/scheduler_service.py  (SchedulerService execution)  *)
(* The Scheduler drives an APScheduler 3.x AsyncIOScheduler configured     *)
(* with a MemoryJobStore and an AsyncIOExecutor (scheduler.py:31-50); the  *)
(* engine's behaviour under that configuration is modelled at the places   *)
(* where the source calls it.                                              *)
(*                                                                         *)
(* Time: one clock unit is one minute, the granularity of a 5-field cron   *)
(* expression.  Fire instants are the integers; the clock value k stands   *)
(* for a wall-clock instant strictly between minute k and minute k+1.      *)
(*                                                                         *)
(* Concurrency: everything runs on one asyncio event loop, so the code     *)
(* between two awaits is one atomic step.  The only await of an execution  *)
(* that really suspends is the HTTP fetch (json_placeholder_service.py:19);*)
(* the database calls are blocking psycopg2 calls.                         *)
(*                                                                         *)
(* Around the scheduling core the module also follows                      *)
(*   src/src/database/connection.py  (DatabaseConnection, one connection   *)
(*                                    with its open transaction)           *)
(*   src/src/app/application.py      (LogIngestApp: initialize, scheduled  *)
(*                                    run, signal, shutdown)               *)
(*   src/src/main.py                 (main: exit status)                   *)
(***************************************************************************)
EXTENDS Integers, Sequences, FiniteSets, TLC

\* ------------------------------------------------------------------ bounds
MaxTime == 2
MaxCalls == 3
MaxSources == 2

\* ------------------------------------------------------- program constants
DefaultMaxParallelJobs == 3
MisfireGraceTime == 300
CronFieldCount == 5

\* Python's None where a time is expected (next_run_time, last_run, a timer).
NoTime == 0 - 1
\* No job id.
NoId == "-"
JobIds == {"a", "b"}
\* Order in which the job store lists jobs that are due at the same time.
JobOrder == <<"a", "b">>

\* max_parallel_jobs is read from the configuration (scheduler.py:28); the
\* model draws it from the default and from the smallest value.
MaxParallelChoices == {1, DefaultMaxParallelJobs}

\* ---------------------------------------------------------- cron schedules
\* A schedule string is represented by the list of its whitespace-separated
\* parts, i.e. by the value of schedule.split() (scheduler.py:76).
EveryMinute == <<"*", "*", "*", "*", "*">>
Feb31 == <<"0", "0", "31", "2", "*">>
ThreeFields == <<"*", "*", "*">>
BadMinute == <<"99", "*", "*", "*", "*">>
Schedules == {EveryMinute, Feb31, ThreeFields, BadMinute}
\* Once an hour, at minute 1.
MinuteOne == <<"1", "*", "*", "*", "*">>

\* Field values CronTrigger accepts in each position (the fields the model
\* uses); any other value makes the CronTrigger constructor raise ValueError.
ValidFieldValues ==
    <<{"*", "0", "1"}, {"*", "0"}, {"*", "31"}, {"*", "2"}, {"*"}>>

CronAcceptedAnyCount(parts) ==
    \A i \in 1..Len(parts) :
        i <= CronFieldCount /\ parts[i] \in ValidFieldValues[i]

\* scheduler.py:76-90: the split must give five parts and CronTrigger must
\* accept every part; otherwise add_job raises.
CronAccepted(parts) ==
    /\ Len(parts) = CronFieldCount
    /\ \A i \in 1..CronFieldCount : parts[i] \in ValidFieldValues[i]

MinuteMatches(f, t) ==
    CASE f = "*" -> TRUE
      [] f = "0" -> t % 60 = 0
      [] f = "1" -> t % 60 = 1
      [] OTHER -> FALSE

HourMatches(f, t) ==
    CASE f = "*" -> TRUE
      [] f = "0" -> (t \div 60) % 24 = 0
      [] OTHER -> FALSE

\* Day 31 of month 2 does not exist: the trigger has no fire time at all.
DateExists(day, month) == ~(day = "31" /\ month = "2")

FiresAt(parts, t) ==
    /\ MinuteMatches(parts[1], t)
    /\ HourMatches(parts[2], t)
    /\ DateExists(parts[3], parts[4])

\* CronTrigger.get_next_fire_time: the first fire instant after `after`, or
\* NoTime when the trigger never fires again.  The search horizon stands for
\* the trigger's year-9999 limit; it covers the longest period of the
\* schedules above, one hour.
Horizon == MaxTime + 60

\* The first fire instant in t..last, or NoTime.
RECURSIVE FirstFire(_, _, _)
FirstFire(parts, t, last) ==
    IF t > last THEN NoTime
    ELSE IF FiresAt(parts, t) THEN t
    ELSE FirstFire(parts, t + 1, last)

NextFire(parts, after) ==
    IF ~DateExists(parts[3], parts[4]) THEN NoTime
    ELSE FirstFire(parts, after + 1, after + Horizon)

\* misfire_grace_time of 300 seconds (scheduler.py:42) in clock units.
GraceTicks == MisfireGraceTime \div 60

\* ------------------------------------------------------------------- state
VARIABLES
    max_parallel_jobs,  \* Scheduler.max_parallel_jobs (scheduler.py:28)
    jobs,               \* Scheduler._jobs: dict job id -> statistics record
    running,            \* Scheduler._running
    engState,           \* AsyncIOScheduler.state: "stopped" or "running"
    pending,            \* engine's list of jobs added before start()
    store,              \* MemoryJobStore: dict job id -> [trigger, next]
    instances,          \* executor's count of running instances per job id
    tasks,              \* asyncio tasks of submitted executions
    ready,              \* event loop's FIFO of callbacks waiting to run
    timer,              \* due time of the engine's wakeup timer, or NoTime
    now,                \* the clock
    calls,              \* number of calls made to the Scheduler's API
    completed,          \* history: executions ended by return or exception
    errored,            \* history: executions ended by an exception
    lastStart,          \* history: start time of the latest execution, per job
    afterShutdown,      \* history: shutdown() took effect, no start() since
    db,                 \* DatabaseConnection: the connection and the rows
                        \* of its open transaction
    sources,            \* the `sources` list of the loaded configuration
    services,           \* SchedulerService.services: dict name -> source
    appPc,              \* how far main() and LogIngestApp have come
    exitCode,           \* exit status of the process, NoExit while it runs
    shutdown_requested, \* LogIngestApp._shutdown_requested
    xform,              \* one run of the execution body on its own: its
                        \* inputs, then what it did
    lastOp              \* the call or loop step that produced this state

engineVars == <<engState, pending, store, instances, tasks, ready, timer>>
historyVars == <<completed, errored, lastStart>>
appVars ==
    <<sources, services, appPc, exitCode, shutdown_requested, xform>>
vars == <<max_parallel_jobs, jobs, running, engState, pending, store,
          instances, tasks, ready, timer, now, calls, completed,
          errored, lastStart, afterShutdown, db, sources, services, appPc,
          exitCode, shutdown_requested, xform, lastOp>>

\* lastOp: op is the call or step, id its job, schedule and wait its
\* arguments, result how it ended ("ok", "raised", "noop" for a call that
\* returned early, "committed" for an execution that stored its batch),
\* skipped the fires a wakeup refused to submit, batch the rows an execution
\* handed to _store_logs and rows the rows the step committed, each row
\* named by the job it belongs to.
Op(op, id, schedule, wait, result) ==
    [op |-> op, id |-> id, schedule |-> schedule, wait |-> wait,
     result |-> result, skipped |-> {}, batch |-> <<>>, rows |-> <<>>]

LoopStep(kind) == Op(kind, NoId, <<>>, FALSE, "ok")

\* scheduler.py:103-111: the statistics record add_job stores for a job.
NewJobInfo(schedule) ==
    [schedule |-> schedule, last_run |-> NoTime, next_run |-> NoTime,
     run_count |-> 0, error_count |-> 0]

ZeroCounts == [j \in JobIds |-> 0]

\* An empty Python dict, and d[k] = v on a dict.
EmptyDict == [k \in {} |-> 0]
Put(d, k, v) == [x \in (DOMAIN d) \cup {k} |-> IF x = k THEN v ELSE d[x]]

\* No exit status: the process is running.
NoExit == 0 - 1

\* connection.py:10-18: the psycopg2 connection is "none" before the first
\* use, then "open" or "closed"; txn holds the rows inserted and neither
\* committed nor rolled back.
OpenConnection == [conn |-> "open", txn |-> <<>>]

\* No execution body is followed on its own.
NoExecution == [pc |-> "none"]

\* The application as the Scheduler sees it when it is used on its own: no
\* configuration loaded into a SchedulerService, main() not modelled.
NoMain ==
    /\ sources = <<>>
    /\ services = EmptyDict
    /\ appPc = "none"
    /\ exitCode = NoExit
    /\ shutdown_requested = FALSE

NoApp ==
    /\ NoMain
    /\ xform = NoExecution

\* scheduler.py:25-53 (Scheduler.__init__): nothing registered, not running,
\* the engine constructed but stopped.  The database was set up before
\* (application.py:35-38), so its connection is open.
Init ==
    /\ max_parallel_jobs \in MaxParallelChoices
    /\ jobs = EmptyDict
    /\ running = FALSE
    /\ engState = "stopped"
    /\ pending = <<>>
    /\ store = EmptyDict
    /\ instances = ZeroCounts
    /\ tasks = {}
    /\ ready = <<>>
    /\ timer = NoTime
    /\ now = 0
    /\ calls = 0
    /\ completed = ZeroCounts
    /\ errored = ZeroCounts
    /\ lastStart = [j \in JobIds |-> NoTime]
    /\ afterShutdown = FALSE
    /\ db = OpenConnection
    /\ NoApp
    /\ lastOp = Op("init", NoId, <<>>, FALSE, "ok")

\* ---------------------------------------------------------- engine helpers
\* The engine's wakeup() only schedules the real wakeup on the event loop.
Wakeup(q) == Append(q, [kind |-> "wakeup", wait |-> FALSE, job |-> NoId,
                        run_time |-> 0])

ShutdownCallback(w) == [kind |-> "shutdown", wait |-> w, job |-> NoId,
                        run_time |-> 0]

TaskStep(j, t) == [kind |-> "step", wait |-> FALSE, job |-> j, run_time |-> t]

RealAddJobKeepsExisting(st, id, trigger) ==
    IF id \in DOMAIN st THEN st
    ELSE Put(st, id, [trigger |-> trigger, next |-> NextFire(trigger, now)])

\* The engine adding a job to its running job store: the next fire time is
\* computed from the current time and an entry with the same id is replaced
\* (replace_existing=True, scheduler.py:100).
RealAddJob(st, id, trigger) ==
    Put(st, id, [trigger |-> trigger, next |-> NextFire(trigger, now)])

RECURSIVE AddPending(_, _)
AddPending(st, pend) ==
    IF pend = <<>> THEN st
    ELSE AddPending(RealAddJob(st, Head(pend).id, Head(pend).trigger),
                    Tail(pend))

\* Earliest next_run_time in the job store, NoTime when no job has one.
NextWakeup(st) ==
    LET ts == {st[j].next : j \in DOMAIN st} \ {NoTime}
    IN IF ts = {} THEN NoTime ELSE CHOOSE t \in ts : \A u \in ts : t <= u

ReadNextRunStored(id) == jobs[id].next_run

\* scheduler.py:129-135: next_run as get_job_status reads it.  Before the
\* engine has started the job is a pending job without a next_run_time
\* attribute, and the read fails into the `except Exception: pass`.
ReadNextRun(id) ==
    IF engState = "stopped" /\ \E i \in 1..Len(pending) : pending[i].id = id
    THEN NoTime
    ELSE IF id \notin DOMAIN store THEN NoTime ELSE store[id].next

\* scheduler.py:121-146.  The result is <<>> for Python's None and a
\* one-element list holding the status dict otherwise.
get_job_status(id) ==
    IF id \notin DOMAIN jobs THEN <<>>
    ELSE <<[id |-> id,
            schedule |-> jobs[id].schedule,
            last_run |-> jobs[id].last_run,
            next_run |-> ReadNextRun(id),
            run_count |-> jobs[id].run_count,
            error_count |-> jobs[id].error_count]>>

\* scheduler.py:148-150, as the set of the statuses of all jobs.
get_all_jobs_status == {get_job_status(id)[1] : id \in DOMAIN jobs}

\* scheduler.py:197-199
is_running == running

\* ------------------------------------------------------------ Scheduler API
AddJobRegistersFirst(s, id, schedule) ==
    IF ~CronAccepted(schedule)
    THEN [s EXCEPT !.jobs = Put(@, id, NewJobInfo(schedule)),
                   !.raised = TRUE]
    ELSE IF engState = "stopped"
    THEN [s EXCEPT !.jobs = Put(@, id, NewJobInfo(schedule)),
                   !.pending = Append(@, [id |-> id, trigger |-> schedule])]
    ELSE [s EXCEPT !.jobs = Put(@, id, NewJobInfo(schedule)),
                   !.store = RealAddJob(@, id, schedule),
                   !.ready = Wakeup(@)]

\* scheduler.py:75-111, the state change of add_job: on a stopped engine the
\* job is put on the pending list, on a running one into the job store.
AddJobState(s, id, schedule) ==
    IF ~CronAccepted(schedule)
    THEN \* ValueError from line 78 or from CronTrigger, re-raised at 119
         [s EXCEPT !.raised = TRUE]
    ELSE IF engState = "stopped"
    THEN [s EXCEPT !.jobs = Put(@, id, NewJobInfo(schedule)),
                   !.pending = Append(@, [id |-> id, trigger |-> schedule])]
    ELSE [s EXCEPT !.jobs = Put(@, id, NewJobInfo(schedule)),
                   !.store = RealAddJob(@, id, schedule),
                   !.ready = Wakeup(@)]

\* The part of the Scheduler's state that add_job works on.
SchedulerState ==
    [jobs |-> jobs, pending |-> pending, store |-> store, ready |-> ready,
     raised |-> FALSE]

\* scheduler.py:55-119.  A successful call (re)registers the id, so the
\* history kept for that id starts again with the new registration.
add_job(id, schedule) ==
    /\ calls < MaxCalls
    /\ calls' = calls + 1
    /\ \E s \in {AddJobState(SchedulerState, id, schedule)} :
          /\ jobs' = s.jobs
          /\ pending' = s.pending
          /\ store' = s.store
          /\ ready' = s.ready
          /\ UNCHANGED <<engState, instances, tasks, timer>>
          /\ IF s.raised
             THEN /\ lastOp' = Op("add_job", id, schedule, FALSE, "raised")
                  /\ UNCHANGED historyVars
             ELSE /\ lastOp' = Op("add_job", id, schedule, FALSE, "ok")
                  /\ completed' = [completed EXCEPT ![id] = 0]
                  /\ errored' = [errored EXCEPT ![id] = 0]
                  /\ lastStart' = [lastStart EXCEPT ![id] = NoTime]
    /\ UNCHANGED <<max_parallel_jobs, running, now, afterShutdown, db,
                   appVars>>

AlreadyRunningIgnored == FALSE

\* scheduler.py:154: the guard of start()
AlreadyRunning == running

\* How a call of start() ends: at the guard, with the engine's
\* SchedulerAlreadyRunningError (its state is not stopped), or normally.
StartResult ==
    IF AlreadyRunning THEN "noop"
    ELSE IF engState # "stopped" THEN "raised"
    ELSE "ok"

\* scheduler.py:154-164, the state change of start().  The engine's start()
\* raises SchedulerAlreadyRunningError unless its state is stopped;
\* otherwise it moves the pending jobs into the job store, becomes running
\* and asks the event loop for a wakeup.
SchedulerStart ==
    IF StartResult # "ok"
    THEN UNCHANGED <<running, engineVars, afterShutdown>>
    ELSE /\ store' = AddPending(store, pending)
         /\ pending' = <<>>
         /\ engState' = "running"
         /\ ready' = Wakeup(ready)
         /\ running' = TRUE
         /\ afterShutdown' = FALSE
         /\ UNCHANGED <<instances, tasks, timer>>

\* scheduler.py:152-179
start ==
    /\ calls < MaxCalls
    /\ calls' = calls + 1
    /\ SchedulerStart
    /\ lastOp' = Op("start", NoId, <<>>, FALSE, StartResult)
    /\ UNCHANGED <<max_parallel_jobs, jobs, now, historyVars, db, appVars>>

NotRunningIgnored == FALSE

\* scheduler.py:188: the guard of shutdown()
NotRunning == ~running

\* scheduler.py:188-194, the state change of shutdown().
\* AsyncIOScheduler.shutdown only hands the engine's shutdown to the event
\* loop (call_soon_threadsafe) and returns.
SchedulerShutdown(wait) ==
    IF NotRunning
    THEN UNCHANGED <<running, ready, afterShutdown>>
    ELSE /\ ready' = Append(ready, ShutdownCallback(wait))
         /\ running' = FALSE
         /\ afterShutdown' = TRUE

\* scheduler.py:181-195
shutdown(wait) ==
    /\ calls < MaxCalls
    /\ calls' = calls + 1
    /\ SchedulerShutdown(wait)
    /\ lastOp' = Op("shutdown", NoId, <<>>, wait,
                    IF NotRunning THEN "noop" ELSE "ok")
    /\ UNCHANGED <<max_parallel_jobs, jobs, engState, pending, store,
                   instances, tasks, timer, now, historyVars, db, appVars>>

\* --------------------------------------------------------------- the engine
\* An asyncio task of a submitted run: pc is "new" until its first step and
\* "fetch" while it waits in fetch_data(); late tells that it began to wait
\* when the engine's shutdown was already handed to the event loop.
Task(j, t, pc, c) ==
    [job |-> j, run_time |-> t, pc |-> pc, cancelled |-> c, late |-> FALSE]

ShutdownQueued == \E i \in 1..Len(ready) : ready[i].kind = "shutdown"

Remove(d, k) == [x \in (DOMAIN d) \ {k} |-> d[x]]

\* Ids of the jobs whose next_run_time has come, in job store order
\* (by next_run_time, then by id).
RECURSIVE DueFrom(_, _)
DueFrom(st, t) ==
    IF t > now THEN <<>>
    ELSE SelectSeq(JobOrder, LAMBDA j : j \in DOMAIN st /\ st[j].next = t)
         \o DueFrom(st, t + 1)

DueJobs(st) == DueFrom(st, 0)

\* job_defaults (scheduler.py:39-43).  coalesce=True: of the fire times that
\* have come since next_run_time only the latest is run.
CoalescedRunTime(trigger, next) ==
    LET run_times == {t \in next..now : t = next \/ FiresAt(trigger, t)}
    IN CHOOSE t \in run_times : \A u \in run_times : u <= t

MaxInstancesNeverReached(n) == FALSE

\* max_instances = max_parallel_jobs (scheduler.py:41): the executor refuses
\* a job that already has that many running instances.
MaxInstancesReached(n) == n >= max_parallel_jobs

NeverMisfired(run_time) == FALSE

\* misfire_grace_time = 300 (scheduler.py:42): a run that starts more than
\* the grace time after its fire time is not executed.
Misfired(run_time) == now - run_time >= GraceTicks

\* The engine processing one due job: submit its coalesced run to the
\* executor, or skip it when its instances are at the cap, and in both cases
\* move next_run_time past the run.
SubmitJob(acc, j) ==
    LET job == acc.store[j]
        run == CoalescedRunTime(job.trigger, job.next)
        nxt == NextFire(job.trigger, run)
        st == IF nxt = NoTime THEN Remove(acc.store, j)
              ELSE Put(acc.store, j, [job EXCEPT !.next = nxt])
    IN IF MaxInstancesReached(acc.instances[j])
       THEN [acc EXCEPT !.store = st,
                        !.skipped = @ \cup {[job |-> j, run_time |-> run]}]
       ELSE [acc EXCEPT !.store = st,
                        !.instances[j] = @ + 1,
                        !.tasks = @ \cup {Task(j, run, "new", FALSE)},
                        !.ready = Append(@, TaskStep(j, run))]

RECURSIVE ProcessJobs(_, _)
ProcessJobs(acc, due) ==
    IF due = <<>> THEN acc
    ELSE ProcessJobs(SubmitJob(acc, Head(due)), Tail(due))

\* The event loop runs the engine's wakeup: due jobs are processed and the
\* timer is set for the earliest next_run_time.
RunWakeup ==
    /\ ready # <<>>
    /\ Head(ready).kind = "wakeup"
    /\ \E acc \in {ProcessJobs([store |-> store, instances |-> instances,
                               tasks |-> tasks, ready |-> Tail(ready),
                               skipped |-> {}], DueJobs(store))} :
          /\ store' = acc.store
          /\ instances' = acc.instances
          /\ tasks' = acc.tasks
          /\ ready' = acc.ready
          /\ timer' = NextWakeup(acc.store)
          /\ lastOp' = [LoopStep("wakeup") EXCEPT !.skipped = acc.skipped]
    /\ UNCHANGED <<max_parallel_jobs, jobs, running, engState, pending, now,
                   calls, historyVars, afterShutdown, db, appVars>>

\* The event loop runs the engine's shutdown (scheduler.py:193): the state
\* becomes stopped, AsyncIOExecutor.shutdown cancels every task that has not
\* finished (it cannot wait, whatever `wait` is), MemoryJobStore.shutdown
\* removes all jobs, and the timer is stopped.
RunShutdown ==
    /\ ready # <<>>
    /\ Head(ready).kind = "shutdown"
    /\ ready' = Tail(ready)
    /\ IF engState = "stopped"
       THEN UNCHANGED <<engState, tasks, store, timer>>
       ELSE /\ engState' = "stopped"
            /\ tasks' = {[t EXCEPT !.cancelled = TRUE] : t \in tasks}
            /\ store' = EmptyDict
            /\ timer' = NoTime
    /\ lastOp' = LoopStep("loop")
    /\ UNCHANGED <<max_parallel_jobs, jobs, running, pending, instances, now,
                   calls, historyVars, afterShutdown, db, appVars>>

\* The wakeup timer expires: the engine's wakeup is handed to the event loop.
TimerFires ==
    /\ timer # NoTime
    /\ timer <= now
    /\ ready' = Wakeup(ready)
    /\ timer' = NoTime
    /\ lastOp' = LoopStep("loop")
    /\ UNCHANGED <<max_parallel_jobs, jobs, running, engState, pending,
                   store, instances, tasks, now, calls, historyVars,
                   afterShutdown, db, appVars>>

Tick ==
    /\ now < MaxTime
    /\ now' = now + 1
    /\ lastOp' = LoopStep("loop")
    /\ UNCHANGED <<max_parallel_jobs, jobs, running, engineVars, calls,
                   historyVars, afterShutdown, db, appVars>>

\* ------------------------------------------------------------ executions
\* What the connector and the database do in one execution.
FetchResults == {"data", "empty", "error"}
TransformResults == {"entries", "none"}
StoreResults == {"ok", "error"}
\* A step the execution did not reach.
NotCalled == "-"

\* The steps of one execution: transform is called only with fetched data
\* (scheduler_service.py:104-110), _store_logs only with entries (112-118).
Outcomes ==
    {o \in [fetch : FetchResults,
            transform : TransformResults \cup {NotCalled},
            stored : StoreResults \cup {NotCalled}] :
        /\ (o.transform = NotCalled) <=> (o.fetch # "data")
        /\ (o.stored = NotCalled) <=> (o.transform # "entries")}

\* -------------------------------------------------------------- JSON values
\* A value as the connector gets it from response.json(): kind tells the
\* Python type, text holds the characters of a string or the literal of a
\* number or boolean, keys and items the members of an object, items the
\* elements of an array.  A character is a one-symbol string; the keywords
\* true, false and null count as one symbol each.
JValue(kind, text, keys, items) ==
    [kind |-> kind, text |-> text, keys |-> keys, items |-> items]
JNull == JValue("null", <<>>, <<>>, <<>>)
JTrue == JValue("boolean", <<"true">>, <<>>, <<>>)
JNumber(digits) == JValue("number", digits, <<>>, <<>>)
JString(chars) == JValue("string", chars, <<>>, <<>>)
JArray(items) == JValue("array", <<>>, <<>>, items)
JObject(keys, items) == JValue("object", <<>>, keys, items)

Quote == "\""
Backslash == "\\"
Digits == {"1"}
Keywords == {"true", "false", "null"}

\* json.dumps of a string: quotes and backslashes are escaped.
RECURSIVE Escape(_)
Escape(chars) ==
    IF chars = <<>> THEN <<>>
    ELSE (IF Head(chars) \in {Quote, Backslash}
          THEN <<Backslash, Head(chars)>>
          ELSE <<Head(chars)>>) \o Escape(Tail(chars))

Quoted(chars) == <<Quote>> \o Escape(chars) \o <<Quote>>

\* json.dumps with its default separators ", " and ": ".
RECURSIVE dumps(_), DumpItems(_), DumpMembers(_, _)
dumps(v) ==
    CASE v.kind = "string" -> Quoted(v.text)
      [] v.kind = "array" -> <<"[">> \o DumpItems(v.items) \o <<"]">>
      [] v.kind = "object" ->
             <<"{">> \o DumpMembers(v.keys, v.items) \o <<"}">>
      [] v.kind = "null" -> <<"null">>
      [] OTHER -> v.text

DumpItems(items) ==
    IF items = <<>> THEN <<>>
    ELSE dumps(Head(items))
         \o (IF Tail(items) = <<>> THEN <<>>
             ELSE <<",", " ">> \o DumpItems(Tail(items)))

DumpMembers(keys, items) ==
    IF keys = <<>> THEN <<>>
    ELSE Quoted(Head(keys)) \o <<":", " ">> \o dumps(Head(items))
         \o (IF Tail(keys) = <<>> THEN <<>>
             ELSE <<",", " ">> \o DumpMembers(Tail(keys), Tail(items)))

\* A JSON parser (json.loads).  Every parsing operator returns whether it
\* succeeded, the value read and the text left.
Parsed(value, rest) == [ok |-> TRUE, value |-> value, rest |-> rest]
ParseError == [ok |-> FALSE, value |-> JNull, rest |-> <<>>]

RECURSIVE SkipSpace(_)
SkipSpace(text) ==
    IF text # <<>> /\ Head(text) = " " THEN SkipSpace(Tail(text)) ELSE text

\* The digits of a number literal.
RECURSIVE ParseDigits(_, _)
ParseDigits(text, acc) ==
    IF text # <<>> /\ Head(text) \in Digits
    THEN ParseDigits(Tail(text), Append(acc, Head(text)))
    ELSE Parsed(JNumber(acc), text)

\* The characters of a string literal after its opening quote.
RECURSIVE ParseChars(_, _)
ParseChars(text, acc) ==
    IF text = <<>> THEN ParseError
    ELSE IF Head(text) = Quote THEN Parsed(JString(acc), Tail(text))
    ELSE IF Head(text) = Backslash
    THEN IF Tail(text) # <<>> /\ Head(Tail(text)) \in {Quote, Backslash}
         THEN ParseChars(Tail(Tail(text)), Append(acc, Head(Tail(text))))
         ELSE ParseError
    ELSE ParseChars(Tail(text), Append(acc, Head(text)))

RECURSIVE ParseValue(_), ParseElements(_, _), ParseMembers(_, _, _)
ParseValue(text) ==
    LET t == SkipSpace(text)
    IN IF t = <<>> THEN ParseError
       ELSE CASE Head(t) = "null" -> Parsed(JNull, Tail(t))
              [] Head(t) \in {"true", "false"} ->
                     Parsed(JValue("boolean", <<Head(t)>>, <<>>, <<>>),
                            Tail(t))
              [] Head(t) \in Digits -> ParseDigits(t, <<>>)
              [] Head(t) = Quote -> ParseChars(Tail(t), <<>>)
              [] Head(t) = "[" ->
                     IF SkipSpace(Tail(t)) # <<>>
                        /\ Head(SkipSpace(Tail(t))) = "]"
                     THEN Parsed(JArray(<<>>), Tail(SkipSpace(Tail(t))))
                     ELSE ParseElements(Tail(t), <<>>)
              [] Head(t) = "{" ->
                     IF SkipSpace(Tail(t)) # <<>>
                        /\ Head(SkipSpace(Tail(t))) = "}"
                     THEN Parsed(JObject(<<>>, <<>>),
                                 Tail(SkipSpace(Tail(t))))
                     ELSE ParseMembers(Tail(t), <<>>, <<>>)
              [] OTHER -> ParseError

\* The elements of an array after "[" or ",".
ParseElements(text, acc) ==
    LET e == ParseValue(text)
        t == SkipSpace(e.rest)
    IN IF ~e.ok \/ t = <<>> THEN ParseError
       ELSE IF Head(t) = "]"
       THEN Parsed(JArray(Append(acc, e.value)), Tail(t))
       ELSE IF Head(t) = ","
       THEN ParseElements(Tail(t), Append(acc, e.value))
       ELSE ParseError

\* The members of an object after "{" or ",".
ParseMembers(text, keys, items) ==
    LET k == ParseValue(text)
        c == SkipSpace(k.rest)
        e == ParseValue(Tail(c))
        t == SkipSpace(e.rest)
    IN IF ~k.ok \/ k.value.kind # "string" \/ c = <<>> THEN ParseError
       ELSE IF Head(c) # ":" THEN ParseError
       ELSE IF ~e.ok \/ t = <<>> THEN ParseError
       ELSE IF Head(t) = "}"
       THEN Parsed(JObject(Append(keys, k.value.text),
                           Append(items, e.value)), Tail(t))
       ELSE IF Head(t) = ","
       THEN ParseMembers(Tail(t), Append(keys, k.value.text),
                         Append(items, e.value))
       ELSE ParseError

\* json.loads: the whole text must be one value.
loads(text) ==
    LET r == ParseValue(text)
    IN IF r.ok /\ SkipSpace(r.rest) = <<>> THEN r ELSE ParseError

\* ------------------------------------------------- log entries, transform
\* dict.get(key, default) on a configuration mapping.
Get(d, k, default) == IF k \in DOMAIN d THEN d[k] ELSE default

\* datetime.isoformat() of a naive datetime has no offset; to_dict appends
\* "Z" (log_entry.py:40).
IsoFormatZ(instant) == [instant |-> instant, zone |-> <<"Z">>]

\* log_entry.py:8-30.  timestamp is NoTime for None.
LogEntry(source, product, event_type, raw_data, severity, timestamp) ==
    [source |-> source,
     product |-> product,
     event_type |-> event_type,
     severity |-> severity,
     raw_data |-> IF raw_data.kind = "object" THEN dumps(raw_data)
                  ELSE IF raw_data.kind = "string" THEN raw_data.text
                  ELSE dumps(raw_data),
     timestamp |-> IF timestamp # NoTime THEN timestamp ELSE now]

\* log_entry.py:32-43
to_dict(e) == [e EXCEPT !.timestamp = IsoFormatZ(@)]

\* json_placeholder_service.py:34-52.  entries is what transform returns,
\* failed counts the items whose exception the loop caught and logged.
RECURSIVE service_transform(_, _)
service_transform(config, data) ==
    IF data = <<>> THEN [entries |-> <<>>, failed |-> 0]
    ELSE LET rest == service_transform(config, Tail(data))
         IN IF "name" \notin DOMAIN config
            THEN \* KeyError of self.config['name'], caught at line 48
                 [rest EXCEPT !.failed = @ + 1]
            ELSE [rest EXCEPT !.entries =
                     <<to_dict(LogEntry(config["name"],
                                        Get(config, "product", "unknown"),
                                        Get(config, "event_type",
                                            "api_request"),
                                        Head(data),
                                        Get(config, "severity", "info"),
                                        NoTime))>> \o @]

\* json_placeholder_service.py:21-23: the decoded response, wrapped in a
\* list unless it is one.
WrapData(response) ==
    IF response.kind = "array" THEN response.items ELSE <<response>>

\* The batch of an execution as the database takes it: a row "ok" is
\* inserted, a row "bad" makes cursor.execute raise, a row "late" is
\* inserted and makes the commit raise (a deferred constraint).
BatchAccepted == <<"ok", "ok">>
BatchRejected == <<"ok", "bad">>
BatchDeferred == <<"ok", "late">>

\* connection.py:14-18: the connection property opens a new connection
\* when there is none or when it is closed.
connection(d) == IF d.conn = "open" THEN d ELSE OpenConnection

\* connection.py:50-52
close(d) == IF d.conn = "open" THEN [conn |-> "closed", txn |-> <<>>] ELSE d

\* A use of get_cursor is followed through a record r: db the connection,
\* rows what was committed, raised whether an exception is on its way out,
\* deferred whether the commit will be refused, cursor the state of the
\* cursor the block works with.
\* scheduler_service.py:143-155: the INSERTs of the rows of job j, up to
\* the first that raises.
RECURSIVE InsertRows(_, _, _)
InsertRows(r, j, batch) ==
    IF batch = <<>> THEN r
    ELSE IF Head(batch) = "bad" THEN [r EXCEPT !.raised = TRUE]
    ELSE InsertRows([r EXCEPT !.db.txn = Append(@, j),
                              !.deferred = @ \/ Head(batch) = "late"],
                    j, Tail(batch))

\* connection.py:41
conn_commit(r) ==
    IF r.deferred THEN [r EXCEPT !.raised = TRUE]
    ELSE [r EXCEPT !.rows = r.db.txn, !.db.txn = <<>>]

RollbackCommits(r) == [r EXCEPT !.rows = r.db.txn, !.db.txn = <<>>]
RollbackSkipped(r) == r

\* connection.py:43-45
conn_rollback(r) == [r EXCEPT !.db.txn = <<>>]

CursorLeftOpen(r) == r

\* connection.py:46-48
cursor_close(r) ==
    IF r.cursor = "open" THEN [r EXCEPT !.cursor = "closed"] ELSE r

\* connection.py:33-48 around the body of scheduler_service.py:142-155:
\* the block, the commit when the block raised nothing, the rollback when
\* the block or the commit raised, and the finally clause.
get_cursor(d, j, batch) ==
    LET block == InsertRows([db |-> connection(d), rows |-> <<>>,
                             raised |-> FALSE, deferred |-> FALSE,
                             cursor |-> "open"], j, batch)
        r == IF block.raised THEN block ELSE conn_commit(block)
    IN cursor_close(IF r.raised THEN conn_rollback(r) ELSE r)

\* scheduler_service.py:131-160
store_logs(d, j, batch) ==
    IF batch = <<>>
    THEN [db |-> d, rows |-> <<>>, raised |-> FALSE, deferred |-> FALSE,
          cursor |-> "none"]
    ELSE get_cursor(d, j, batch)

\* The rows _store_logs hands to the database, by what the database will
\* do with them.
BatchOf(stored) ==
    IF stored = "ok" THEN BatchAccepted
    ELSE IF stored = "commit_error" THEN BatchDeferred
    ELSE BatchRejected

\* How an execution ends: steps are the steps it took, in their order.
ExecutionEnd(d, raised, steps) ==
    [raised |-> raised, committed |-> FALSE, db |-> d, batch |-> <<>>,
     rows |-> <<>>, steps |-> steps, cursor |-> "none"]

ExecuteStoresAlways(d, j, fetch, transform, stored) ==
    LET r == store_logs(d, j, BatchOf(stored))
    IN [raised |-> r.raised, committed |-> ~r.raised, db |-> r.db,
        batch |-> BatchOf(stored), rows |-> r.rows,
        steps |-> <<"fetch", "transform", "store">>, cursor |-> r.cursor]

\* scheduler_service.py:82-129 from the point where fetch_data() returns or
\* raises, for an execution of job j on the connection d: how the body
\* ends, the steps it took, whether a batch was stored, the batch, the rows
\* committed and the connection afterwards.
execute_service(d, j, fetch, transform, stored) ==
    LET r == store_logs(d, j, BatchOf(stored))
    IN IF fetch = "error" THEN ExecutionEnd(d, TRUE, <<"fetch">>)
       ELSE IF fetch = "empty" THEN ExecutionEnd(d, FALSE, <<"fetch">>)
       ELSE IF transform # "entries"
       THEN ExecutionEnd(d, FALSE, <<"fetch", "transform">>)
       ELSE [raised |-> r.raised, committed |-> ~r.raised, db |-> r.db,
             batch |-> BatchOf(stored), rows |-> r.rows,
             steps |-> <<"fetch", "transform", "store">>,
             cursor |-> r.cursor]

\* The executor's done-callback: one running instance less for the job.
Release(inst, j) == [inst EXCEPT ![j] = @ - 1]

\* The event loop runs the first step of a submitted task.  A task that was
\* cancelled before it started never runs its coroutine; a run whose fire
\* time lies further back than the grace time is reported missed; otherwise
\* _execute_service runs up to the await of fetch_data()
\* (scheduler_service.py:102).
RunTaskStep ==
    /\ ready # <<>>
    /\ Head(ready).kind = "step"
    /\ ready' = Tail(ready)
    /\ LET j == Head(ready).job
           t == CHOOSE x \in tasks :
                    x.job = j /\ x.run_time = Head(ready).run_time
       IN IF t.cancelled
          THEN /\ tasks' = tasks \ {t}
               /\ instances' = Release(instances, j)
               /\ lastOp' = LoopStep("loop")
               /\ UNCHANGED lastStart
          ELSE IF Misfired(t.run_time)
          THEN /\ tasks' = tasks \ {t}
               /\ instances' = Release(instances, j)
               /\ lastOp' = Op("exec_missed", j, <<>>, FALSE, "ok")
               /\ UNCHANGED lastStart
          ELSE /\ tasks' = (tasks \ {t})
                              \cup {[t EXCEPT !.pc = "fetch",
                                              !.late = ShutdownQueued]}
               /\ lastStart' = [lastStart EXCEPT ![j] = now]
               /\ lastOp' = Op("exec_start", j, <<>>, FALSE, "ok")
               /\ UNCHANGED instances
    /\ UNCHANGED <<max_parallel_jobs, jobs, running, engState, pending,
                   store, timer, now, calls, completed, errored,
                   afterShutdown, db, appVars>>

\* fetch_data() returns or raises and the execution runs to its end without
\* another suspension: transform, store, and the engine's handling of the
\* outcome.  An exception of the body is caught by the engine's job runner
\* and logged.  Scheduler._jobs is not touched (no line of scheduler.py
\* writes last_run, run_count or error_count after add_job).  A request
\* begun when the engine's shutdown was already waiting on the event loop
\* gets no response before that shutdown runs; it can only fail at once.
FetchReturns(t, fetch, transform, stored) ==
    /\ t \in tasks
    /\ t.pc = "fetch"
    /\ ~t.cancelled
    /\ t.late => fetch = "error"
    /\ \E r \in {execute_service(db, t.job, fetch, transform, stored)} :
          /\ completed' = [completed EXCEPT ![t.job] = @ + 1]
          /\ errored' = [errored EXCEPT ![t.job] =
                                            IF r.raised THEN @ + 1 ELSE @]
          /\ db' = r.db
          /\ lastOp' = [Op("exec_end", t.job, <<>>, FALSE,
                           IF r.raised THEN "raised"
                           ELSE IF r.committed THEN "committed" ELSE "ok")
                        EXCEPT !.batch = r.batch, !.rows = r.rows]
    /\ tasks' = tasks \ {t}
    /\ instances' = Release(instances, t.job)
    /\ UNCHANGED <<max_parallel_jobs, jobs, running, engState, pending,
                   store, ready, timer, now, calls, lastStart, afterShutdown,
                   appVars>>

\* A cancelled task is resumed with CancelledError at its await: the
\* execution ends inside fetch_data() and nothing is transformed or stored.
CancelDelivered(t) ==
    /\ t \in tasks
    /\ t.pc = "fetch"
    /\ t.cancelled
    /\ tasks' = tasks \ {t}
    /\ instances' = Release(instances, t.job)
    /\ lastOp' = Op("exec_abort", t.job, <<>>, FALSE, "raised")
    /\ UNCHANGED <<max_parallel_jobs, jobs, running, engState, pending,
                   store, ready, timer, now, calls, historyVars,
                   afterShutdown, db, appVars>>

\* ------------------------------------------------------------ specification
AddJob == \E id \in JobIds, schedule \in Schedules : add_job(id, schedule)
Start == start
Shutdown == \E wait \in BOOLEAN : shutdown(wait)
FetchReturn ==
    \E t \in tasks, o \in Outcomes :
        FetchReturns(t, o.fetch, o.transform, o.stored)
CancelDeliver == \E t \in tasks : CancelDelivered(t)

Next ==
    \/ AddJob
    \/ Start
    \/ Shutdown
    \/ RunWakeup
    \/ RunShutdown
    \/ RunTaskStep
    \/ FetchReturn
    \/ CancelDeliver
    \/ TimerFires
    \/ Tick

Spec == Init /\ [][Next]_vars

\* The process is suspended, or the event loop blocked, for the length of
\* the grace time: the clock moves on and nothing else happens.
Suspend ==
    /\ now <= MaxTime
    /\ now' = now + GraceTicks
    /\ lastOp' = LoopStep("loop")
    /\ UNCHANGED <<max_parallel_jobs, jobs, running, engineVars, calls,
                   historyVars, afterShutdown, db, appVars>>

\* One job, with a fire every minute or with one fire in the hour.
AddJobLate ==
    \E schedule \in {EveryMinute, MinuteOne} : add_job("a", schedule)

NextLate ==
    \/ AddJobLate
    \/ Start
    \/ Shutdown
    \/ RunWakeup
    \/ RunShutdown
    \/ RunTaskStep
    \/ FetchReturn
    \/ CancelDeliver
    \/ TimerFires
    \/ Tick
    \/ Suspend

\* The Scheduler with a clock that can jump by the grace time.
SpecLate == Init /\ [][NextLate]_vars

\* A Scheduler on which one periodic job was registered before start(), as
\* SchedulerService.initialize_services leaves it (scheduler_service.py:64):
\* the state of Init followed by add_job("a", "* * * * *").
InitRegistered ==
    /\ max_parallel_jobs \in MaxParallelChoices
    /\ jobs = Put(EmptyDict, "a", NewJobInfo(EveryMinute))
    /\ running = FALSE
    /\ engState = "stopped"
    /\ pending = <<[id |-> "a", trigger |-> EveryMinute]>>
    /\ store = EmptyDict
    /\ instances = ZeroCounts
    /\ tasks = {}
    /\ ready = <<>>
    /\ timer = NoTime
    /\ now = 0
    /\ calls = 0
    /\ completed = ZeroCounts
    /\ errored = ZeroCounts
    /\ lastStart = [j \in JobIds |-> NoTime]
    /\ afterShutdown = FALSE
    /\ db = OpenConnection
    /\ NoApp
    /\ lastOp = Op("add_job", "a", EveryMinute, FALSE, "ok")

\* The Scheduler's calls on a Scheduler that already holds a job.
SpecRestart == InitRegistered /\ [][Next]_vars

\* ---------------------------------------------------------- the application
\* One entry of the configuration's `sources` list.  schedule is the split
\* cron expression, <<>> when the entry has no schedule.
Source(name, enabled, schedule, type) ==
    [name |-> name, enabled |-> enabled, schedule |-> schedule,
     type |-> type]

\* The entries the model draws from: for each name the enabled ones of the
\* registered type with each schedule or with none, a disabled one and one
\* of a type that is not registered.
SourceChoices ==
    UNION {{Source(n, TRUE, schedule, "json_placeholder") :
                schedule \in Schedules \cup {<<>>}}
           \cup {Source(n, FALSE, EveryMinute, "json_placeholder"),
                 Source(n, TRUE, EveryMinute, "other")} : n \in JobIds}

RECURSIVE ListsUpTo(_, _)
ListsUpTo(S, n) ==
    IF n = 0 THEN {<<>>}
    ELSE ListsUpTo(S, n - 1)
         \cup {Append(l, x) : l \in ListsUpTo(S, n - 1), x \in S}

AnyTypeKnown(type) == TRUE

\* services/__init__.py:7-19: SERVICE_REGISTRY
KnownType(type) == type = "json_placeholder"

\* scheduler_service.py:39-80, the body of the loop for one source.  s is
\* the Scheduler's state with the services dict.
InitializeService(s, c) ==
    IF ~c.enabled THEN s
    ELSE IF c.schedule = <<>> THEN s
    ELSE IF ~KnownType(c.type)
    THEN s   \* ValueError of ServiceFactory, caught at line 76
    ELSE LET registered == [s EXCEPT !.services = Put(@, c.name, c)]
             added == AddJobState(registered, c.name, c.schedule)
         IN IF added.raised
            THEN registered   \* add_job raised, caught at line 76
            ELSE added

\* scheduler_service.py:27-80
RECURSIVE initialize_services(_, _)
initialize_services(s, srcs) ==
    IF srcs = <<>> THEN s
    ELSE initialize_services(InitializeService(s, Head(srcs)), Tail(srcs))

\* main.py:10-22: the configuration file is looked up and loaded.
load_config ==
    /\ appPc = "start"
    /\ \E file \in {"missing", "invalid", "ok"} :
          IF file = "ok"
          THEN /\ appPc' = "loaded"
               /\ lastOp' = Op("load_config", NoId, <<>>, FALSE, "ok")
               /\ UNCHANGED exitCode
          ELSE \* sys.exit(1) at line 20, or ConfigError caught at line 29
               /\ appPc' = "failed_config"
               /\ exitCode' = 1
               /\ lastOp' = Op("load_config", NoId, <<>>, FALSE, "raised")
    /\ UNCHANGED <<max_parallel_jobs, jobs, running, engineVars, now, calls,
                   historyVars, afterShutdown, db, sources, services,
                   shutdown_requested, xform>>

\* main.py:25-26 with application.py:20-80: the database is set up, then
\* the SchedulerService is built and registers the sources.
initialize ==
    /\ appPc = "loaded"
    /\ \E database \in {"up", "down"} :
          IF database = "down"
          THEN \* ConnectionError out of _setup_database, caught at main.py:29
               /\ appPc' = "failed_db"
               /\ exitCode' = 1
               /\ lastOp' = Op("initialize", NoId, <<>>, FALSE, "raised")
               /\ UNCHANGED <<jobs, pending, services, db>>
          ELSE LET s == initialize_services(
                            [jobs |-> jobs, pending |-> pending,
                             store |-> store, ready |-> ready,
                             raised |-> FALSE, services |-> services],
                            sources)
               IN /\ db' = connection(db)
                  /\ jobs' = s.jobs
                  /\ pending' = s.pending
                  /\ services' = s.services
                  /\ appPc' = "initialized"
                  /\ lastOp' = Op("initialize", NoId, <<>>, FALSE, "ok")
                  /\ UNCHANGED exitCode
    /\ UNCHANGED <<max_parallel_jobs, running, engState, store, instances,
                   tasks, ready, timer, now, calls, historyVars,
                   afterShutdown, sources, shutdown_requested, xform>>

ServicesIgnored == FALSE

\* scheduler_service.py:163-170: start() of the SchedulerService does
\* nothing when no service was registered.
NoServices == DOMAIN services = {}

\* scheduler_service.py:89-95: the entry of self.services the body of an
\* execution t works with, looked up by the name the job was added with.
ServiceOf(t) == services[t.job]

\* scheduler_service.py:189-200
service_get_status ==
    [running |-> is_running,
     total_services |-> Cardinality(DOMAIN services),
     jobs |-> get_all_jobs_status]

LeaveWithoutClose(pc) ==
    /\ SchedulerShutdown(TRUE)
    /\ db' = db
    /\ appPc' = pc
    /\ exitCode' = 0

\* application.py:133-148 on the way out of _run_scheduled: the Scheduler
\* is shut down, then the connection is closed, and main() returns.
LeaveRunScheduled(pc) ==
    /\ SchedulerShutdown(TRUE)
    /\ db' = close(db)
    /\ appPc' = pc
    /\ exitCode' = 0

\* application.py:102-124 up to the first sleep: the signal handlers are
\* installed and the scheduler service is started.  An exception of the
\* engine's start is caught at line 128 and followed by shutdown().
run_scheduled ==
    /\ appPc = "initialized"
    /\ \E engine \in {"starts", "fails"} :
          IF NoServices
          THEN /\ appPc' = "loop"
               /\ lastOp' = Op("run", NoId, <<>>, FALSE, "noop")
               /\ UNCHANGED <<running, engineVars, afterShutdown, db,
                              exitCode>>
          ELSE IF engine = "fails"
          THEN /\ LeaveRunScheduled("failed_start")
               /\ lastOp' = Op("run", NoId, <<>>, FALSE, "raised")
               /\ UNCHANGED <<engState, pending, store, instances, tasks,
                              timer>>
          ELSE /\ SchedulerStart
               /\ appPc' = "loop"
               /\ lastOp' = Op("run", NoId, <<>>, FALSE, "ok")
               /\ UNCHANGED <<db, exitCode>>
    /\ UNCHANGED <<max_parallel_jobs, jobs, now, calls, historyVars, sources,
                   services, shutdown_requested, xform>>

\* application.py:84-87: SIGINT or SIGTERM arrives.
signal_handler ==
    /\ appPc = "loop"
    /\ ~shutdown_requested
    /\ shutdown_requested' = TRUE
    /\ lastOp' = Op("signal", NoId, <<>>, FALSE, "ok")
    /\ UNCHANGED <<max_parallel_jobs, jobs, running, engineVars, now, calls,
                   historyVars, afterShutdown, db, sources, services, appPc,
                   exitCode, xform>>

\* application.py:123-131: the sleep returns, the loop sees the request and
\* _run_scheduled ends through shutdown().
app_shutdown ==
    /\ appPc = "loop"
    /\ shutdown_requested
    /\ LeaveRunScheduled("stopped")
    /\ lastOp' = Op("app_shutdown", NoId, <<>>, TRUE, "ok")
    /\ UNCHANGED <<max_parallel_jobs, jobs, engState, pending, store,
                   instances, tasks, timer, now, calls, historyVars, sources,
                   services, shutdown_requested, xform>>

\* The process before main() has run: nothing constructed but the
\* configuration to be read.
InitApp ==
    /\ max_parallel_jobs \in MaxParallelChoices
    /\ jobs = EmptyDict
    /\ running = FALSE
    /\ engState = "stopped"
    /\ pending = <<>>
    /\ store = EmptyDict
    /\ instances = ZeroCounts
    /\ tasks = {}
    /\ ready = <<>>
    /\ timer = NoTime
    /\ now = 0
    /\ calls = 0
    /\ completed = ZeroCounts
    /\ errored = ZeroCounts
    /\ lastStart = [j \in JobIds |-> NoTime]
    /\ afterShutdown = FALSE
    /\ db = [conn |-> "none", txn |-> <<>>]
    /\ sources \in ListsUpTo(SourceChoices, MaxSources)
    /\ services = EmptyDict
    /\ appPc = "start"
    /\ exitCode = NoExit
    /\ shutdown_requested = FALSE
    /\ xform = NoExecution
    /\ lastOp = Op("init", NoId, <<>>, FALSE, "ok")

NextApp ==
    \/ load_config
    \/ initialize
    \/ run_scheduled
    \/ signal_handler
    \/ app_shutdown
    \/ RunWakeup
    \/ RunShutdown
    \/ RunTaskStep
    \/ FetchReturn
    \/ CancelDeliver
    \/ TimerFires
    \/ Tick

\* main() of the application in scheduled mode, on the event loop.
SpecApp == InitApp /\ [][NextApp]_vars

\* Configurations that bring the Scheduler into each of its states at the
\* time of a signal: no source, a source whose job fires every minute, and
\* a source whose cron expression is refused.
LiveSourceChoices ==
    {Source("a", TRUE, EveryMinute, "json_placeholder"),
     Source("a", TRUE, ThreeFields, "json_placeholder")}

InitLive ==
    /\ InitApp
    /\ sources \in ListsUpTo(LiveSourceChoices, MaxSources)

\* main() in scheduled mode with an event loop that keeps running: the
\* sleep of one second in the run loop returns, so the loop gets to test
\* the shutdown flag (application.py:123-124).
SpecAppLive == InitLive /\ [][NextApp]_vars /\ WF_vars(app_shutdown)

\* main() up to the end of LogIngestApp.initialize.
NextSetup ==
    \/ load_config
    \/ initialize

SpecSetup == InitApp /\ [][NextSetup]_vars

\* main() up to the first sleep of _run_scheduled.
NextStartup ==
    \/ load_config
    \/ initialize
    \/ run_scheduled

SpecStartup == InitApp /\ [][NextStartup]_vars

\* ------------------------------------------- one execution on its own
\* The most items a response holds.
MaxItems == 2

\* The items a response is made of: objects, an array, the scalars, and
\* strings that are or are not JSON text themselves.
Items ==
    {JObject(<<<<"a">>>>, <<JNumber(<<"1">>)>>),
     JObject(<<<<"a">>>>, <<JString(<<"x", Quote>>)>>),
     JArray(<<JNumber(<<"1">>)>>),
     JNumber(<<"1">>),
     JTrue,
     JNull,
     JString(<<"a">>),
     JString(<<"1">>),
     JString(<<Quote, "a", Quote>>),
     JString(<<"{", "}">>)}

\* raise_for_status or the request raising (json_placeholder_service.py:
\* 19-32).
FetchFailure == JValue("error", <<>>, <<>>, <<>>)

\* What response.json() gives: a list of items, one item that is no list,
\* or no response at all.
Responses ==
    {JArray(items) : items \in ListsUpTo(Items, MaxItems)}
    \cup {i \in Items : i.kind # "array"}
    \cup {FetchFailure}

\* The source configs a connector is built from: initialize_services reads
\* the name with a default (scheduler_service.py:41), so an entry without a
\* name makes a connector too.
ConnectorConfigs ==
    {[name |-> "a", event_type |-> "test"],
     [name |-> "a"],
     [event_type |-> "test"]}

StoreChoices == {"ok", "error", "commit_error"}

\* application.py:58 with scheduler_service.py:142-155: raw_data goes into
\* a JSONB column, so the database parses it and refuses the row of an
\* entry whose raw_data is no JSON text.
JsonbAccepts(log_entries) ==
    \A i \in DOMAIN log_entries : loads(log_entries[i].raw_data).ok

\* The Scheduler and the database as in Init, no main(), and the inputs of
\* the call.
InitExecute ==
    /\ max_parallel_jobs = DefaultMaxParallelJobs
    /\ jobs = EmptyDict
    /\ running = FALSE
    /\ engState = "stopped"
    /\ pending = <<>>
    /\ store = EmptyDict
    /\ instances = ZeroCounts
    /\ tasks = {}
    /\ ready = <<>>
    /\ timer = NoTime
    /\ now = 0
    /\ calls = 0
    /\ completed = ZeroCounts
    /\ errored = ZeroCounts
    /\ lastStart = [j \in JobIds |-> NoTime]
    /\ afterShutdown = FALSE
    /\ db = OpenConnection
    /\ NoMain
    /\ lastOp = Op("init", NoId, <<>>, FALSE, "ok")
    /\ \E config \in ConnectorConfigs, response \in Responses,
          stored \in StoreChoices :
          xform = [pc |-> "input", config |-> config,
                   response |-> response, stored |-> stored]

\* scheduler_service.py:82-129 for one call of the body with a connector
\* of the registered type: fetch_data, transform, _store_logs.  stored is
\* what the database does with rows it can parse.
execute_body ==
    /\ xform.pc = "input"
    /\ \E name \in {Get(xform.config, "name", "unknown")} :
       \E data \in {IF xform.response = FetchFailure THEN <<>>
                    ELSE WrapData(xform.response)} :
       \E t \in {service_transform(xform.config, data)} :
       \E r \in {execute_service(
                    db, name,
                    IF xform.response = FetchFailure THEN "error"
                    ELSE IF data = <<>> THEN "empty" ELSE "data",
                    IF t.entries = <<>> THEN "none" ELSE "entries",
                    IF JsonbAccepts(t.entries) THEN xform.stored
                    ELSE "error")} :
          /\ xform' = [pc |-> "done", config |-> xform.config,
                       response |-> xform.response,
                       stored |-> xform.stored, data |-> data,
                       log_entries |-> t.entries, failed |-> t.failed,
                       steps |-> r.steps, raised |-> r.raised,
                       committed |-> r.committed, rows |-> r.rows,
                       cursor |-> r.cursor]
          /\ db' = r.db
          /\ lastOp' = Op("execute", name, <<>>, FALSE,
                          IF r.raised THEN "raised" ELSE "ok")
    /\ UNCHANGED <<max_parallel_jobs, jobs, running, engineVars, now, calls,
                   historyVars, afterShutdown, sources, services, appPc,
                   exitCode, shutdown_requested>>

NextExecute == execute_body

\* One call of SchedulerService._execute_service on every response,
\* connector config and database behaviour.
SpecExecute == InitExecute /\ [][NextExecute]_vars

TypeOK ==
    /\ max_parallel_jobs \in MaxParallelChoices
    /\ DOMAIN jobs \subseteq JobIds
    /\ DOMAIN store \subseteq JobIds
    /\ running \in BOOLEAN
    /\ engState \in {"stopped", "running"}
    /\ now \in 0..(MaxTime + GraceTicks)
    /\ \A j \in JobIds : instances[j] >= 0

\* ------------------------------------------------------------------ claims
\* Executions whose body has started and has not ended.
Executing == {t \in tasks : t.pc = "fetch"}
ExecutingOf(j) == {t \in Executing : t.job = j}
TasksOf(j) == {t \in tasks : t.job = j}

WellFormedSchedules == {EveryMinute, Feb31}
MalformedSchedules == {ThreeFields, BadMinute}

\* C1: in every reachable state the number of executions in flight across
\* all jobs of the Scheduler is at most max_parallel_jobs.
C1_GlobalCap == Cardinality(Executing) <= max_parallel_jobs

\* C2 as stated: with the default configuration at most one execution of
\* each job is in flight at any time.
C2_NoSelfOverlap ==
    max_parallel_jobs = DefaultMaxParallelJobs
        => \A j \in JobIds : Cardinality(ExecutingOf(j)) <= 1

\* C2 amended: for every job id at most max_parallel_jobs executions of that
\* job are in flight at any time, and a fire that arrives while the job has
\* max_parallel_jobs executions in flight is skipped: no task is created or
\* queued for it and the job's next run lies after it.
C2_PerJobCap ==
    /\ \A j \in JobIds :
          /\ Cardinality(TasksOf(j)) <= max_parallel_jobs
          /\ instances[j] = Cardinality(TasksOf(j))
    /\ \A f \in lastOp.skipped :
          /\ Cardinality(TasksOf(f.job)) = max_parallel_jobs
          /\ \A t \in tasks : ~(t.job = f.job /\ t.run_time = f.run_time)
          /\ \A i \in 1..Len(ready) :
                ~(ready[i].kind = "step" /\ ready[i].job = f.job
                  /\ ready[i].run_time = f.run_time)
          /\ f.job \in DOMAIN store => store[f.job].next > f.run_time

\* C2 witness: a fire arrived while its job was at the cap and was skipped.
C2_Witness ==
    \E f \in lastOp.skipped : Cardinality(ExecutingOf(f.job)) = max_parallel_jobs

\* C3: a job whose executions raise stays scheduled on the running
\* scheduler, and its error_count grows with every failed fire.
C3_ErrorIsolation ==
    /\ (lastOp.op = "exec_end" /\ lastOp.result = "raised"
        /\ engState = "running") => lastOp.id \in DOMAIN store
    /\ \A j \in DOMAIN jobs : errored[j] > 0 => jobs[j].error_count >= errored[j]

\* C4: run_count reported by get_job_status is the number of completed
\* executions of the job and error_count the number that ended with an
\* exception.
C4_RunCounts ==
    \A j \in DOMAIN jobs :
        /\ get_job_status(j)[1].run_count = completed[j]
        /\ get_job_status(j)[1].error_count = errored[j]
        /\ get_job_status(j)[1].error_count <= get_job_status(j)[1].run_count

\* C5: last_run reported by get_job_status is the start time of the job's
\* most recent execution, and none only if the job was never executed.
C5_LastRun ==
    \A j \in DOMAIN jobs : get_job_status(j)[1].last_run = lastStart[j]

\* C6 as stated: right after add_job with a well-formed expression, started
\* or not, the call has succeeded and next_run is not none.
C6_NextRunAfterAdd ==
    (lastOp.op = "add_job" /\ lastOp.schedule \in WellFormedSchedules)
        => /\ lastOp.result = "ok"
           /\ get_job_status(lastOp.id) # <<>>
           /\ get_job_status(lastOp.id)[1].next_run # NoTime

\* C6 amended: add_job with a well-formed expression succeeds and registers
\* the job under the expression; right afterwards next_run is not none
\* exactly when the engine is running and the expression has a fire time
\* ahead (of the well-formed schedules, EveryMinute has, Feb31 has none);
\* before start() it is none.
C6_NextRunWhenRunning ==
    (lastOp.op = "add_job" /\ lastOp.schedule \in WellFormedSchedules)
        => /\ lastOp.result = "ok"
           /\ get_job_status(lastOp.id) # <<>>
           /\ get_job_status(lastOp.id)[1].schedule = lastOp.schedule
           /\ (get_job_status(lastOp.id)[1].next_run # NoTime)
                 <=> (engState = "running" /\ lastOp.schedule = EveryMinute)
           /\ get_job_status(lastOp.id)[1].next_run # NoTime
                 => get_job_status(lastOp.id)[1].next_run > now

\* C6 witness: add_job on a running engine, next_run reported.
C6_Witness ==
    /\ lastOp.op = "add_job"
    /\ lastOp.result = "ok"
    /\ engState = "running"
    /\ get_job_status(lastOp.id)[1].next_run # NoTime

\* C7 as stated: after add_job with a malformed expression the call has
\* raised and get_job_status(id) is none.
C7_MalformedLeavesNone ==
    (lastOp.op = "add_job" /\ lastOp.schedule \in MalformedSchedules)
        => /\ lastOp.result = "raised"
           /\ get_job_status(lastOp.id) = <<>>

\* C7 amended: add_job with a malformed expression raises to the caller and
\* registers nothing: the registry and the engine's jobs are as before the
\* call, so get_job_status(id) is none unless a job was registered under the
\* id before, and that job stays.
C7_MalformedRegistersNothing ==
    [][(lastOp'.op = "add_job" /\ lastOp'.schedule \in MalformedSchedules)
          => /\ lastOp'.result = "raised"
             /\ jobs' = jobs
             /\ pending' = pending
             /\ store' = store
             /\ \A id \in JobIds :
                   get_job_status(id)' = get_job_status(id)]_vars

\* C7 witness: a malformed add_job on an id that was registered before.
C7_Witness ==
    /\ lastOp.op = "add_job"
    /\ lastOp.schedule \in MalformedSchedules
    /\ lastOp.id \in DOMAIN jobs

\* C8: start() on a running Scheduler raises nothing, leaves is_running()
\* true and changes nothing: no second wakeup or timer of the engine, no
\* task, the jobs and their fire times as before.
C8_StartIdempotent ==
    [][(lastOp'.op = "start" /\ is_running)
          => /\ lastOp'.result # "raised"
             /\ is_running'
             /\ UNCHANGED <<jobs, engineVars, historyVars>>]_vars

\* C8 witness: start() was called on a running Scheduler.
C8_Witness ==
    /\ lastOp.op = "start"
    /\ lastOp.result = "noop"
    /\ is_running
    /\ engState = "running"

\* C9: in the state right after shutdown(wait=true) returns no job
\* execution is active.
C9_ShutdownWaits ==
    (lastOp.op = "shutdown" /\ lastOp.wait) => tasks = {}

\* C10: no execution is cancelled midway, and no execution starts once
\* shutdown has been called.
C10_NoAbort ==
    /\ lastOp.op # "exec_abort"
    /\ lastOp.op = "exec_start" => ~afterShutdown

\* C12: shutdown() on a Scheduler that is not running (never started, or
\* already shut down) raises nothing and changes nothing, so a second
\* shutdown() leaves the state of the first; after any shutdown() call
\* is_running() is false.
C12_ShutdownIdempotent ==
    [][lastOp'.op = "shutdown"
          => /\ lastOp'.result # "raised"
             /\ ~is_running'
             /\ ~is_running
                   => UNCHANGED <<jobs, running, engineVars, historyVars,
                                  afterShutdown, max_parallel_jobs, now>>]_vars

\* C12 witness: shutdown() was called a second time, before the event loop
\* had run the engine's shutdown of the first call.
C12_Witness ==
    /\ lastOp.op = "shutdown"
    /\ lastOp.result = "noop"
    /\ afterShutdown
    /\ \E i \in 1..Len(ready) : ready[i].kind = "shutdown"

\* C11: a start() that follows a shutdown() which the engine has carried
\* out makes is_running() true again, and every job registered before the
\* shutdown with a periodic expression is then scheduled in the engine with
\* a next_run, without being re-added.
C11_RestartResumes ==
    [][(lastOp'.op = "start" /\ afterShutdown /\ engState = "stopped")
          => /\ is_running'
             /\ \A j \in DOMAIN jobs :
                   jobs[j].schedule = EveryMinute
                       => /\ j \in DOMAIN store'
                          /\ get_job_status(j)[1].next_run' # NoTime]_vars

\* The fire times of job j that have come and were not yet processed.
Overdue(j) ==
    IF j \in DOMAIN store /\ store[j].next # NoTime /\ store[j].next <= now
    THEN {t \in store[j].next..now :
              t = store[j].next \/ FiresAt(store[j].trigger, t)}
    ELSE {}

Latest(S) == CHOOSE t \in S : \A u \in S : u <= t

\* The engine evaluates the due jobs in this step.
WakeupStep == ready # <<>> /\ Head(ready).kind = "wakeup" /\ ready' = Tail(ready)

\* The first step of a submitted task runs in this step.
FirstTaskStep ==
    ready # <<>> /\ Head(ready).kind = "step" /\ ready' = Tail(ready)

HeadTask ==
    CHOOSE t \in tasks :
        t.job = Head(ready).job /\ t.run_time = Head(ready).run_time

\* C13 as stated: when the engine evaluates a job with k >= 1 overdue fire
\* times it runs the job at most once for them, and exactly once if the
\* latest of them is at most the grace time late.
C13_CoalescedOnce ==
    [][WakeupStep =>
          \A j \in JobIds :
              Overdue(j) # {} =>
                  LET new == {t \in tasks' \ tasks : t.job = j}
                  IN IF now - Latest(Overdue(j)) < GraceTicks
                     THEN Cardinality(new) = 1
                     ELSE Cardinality(new) <= 1]_vars

\* C13 amended: when the engine evaluates a job with k >= 1 overdue fire
\* times it submits at most one run for them, the run of the latest, and
\* none if the job has max_parallel_jobs instances running; the job's next
\* run lies in the future, so no earlier fire is run later.  A submitted run
\* that was not cancelled by a shutdown starts executing exactly if, when
\* its task starts, its fire time lies less than the grace time back;
\* otherwise it is dropped.
C13_CoalescedWithinGrace ==
    [][/\ WakeupStep =>
             \A j \in JobIds :
                 Overdue(j) # {} =>
                     LET new == {t \in tasks' \ tasks : t.job = j}
                     IN /\ Cardinality(new) <= 1
                        /\ \A t \in new : t.run_time = Latest(Overdue(j))
                        /\ (new # {}) <=> (instances[j] < max_parallel_jobs)
                        /\ j \in DOMAIN store' => store'[j].next > now
       /\ (FirstTaskStep /\ ~HeadTask.cancelled) =>
             /\ \A u \in tasks' \ tasks :
                   /\ u.job = HeadTask.job
                   /\ u.run_time = HeadTask.run_time
                   /\ u.pc = "fetch"
             /\ (tasks' \ tasks # {})
                   <=> (now - HeadTask.run_time < GraceTicks)]_vars

\* C13 witness: a run whose fire time lay the grace time back when its task
\* started was dropped.
C13_Witness ==
    /\ lastOp.op = "exec_missed"
    /\ lastStart[lastOp.id] = NoTime
    /\ TasksOf(lastOp.id) = {}


\* C14: a fire that arrives when max_parallel_jobs executions are in flight
\* is deferred until a slot is free: an execution starts only in a state
\* where fewer than max_parallel_jobs executions are in flight.
C14_DeferredUntilSlotFree ==
    [][lastOp'.op = "exec_start"
          => Cardinality(Executing) < max_parallel_jobs]_vars

\* The triggers the engine holds for a job id: the entries of its pending
\* list and the entry of its job store.
PendingOf(pend, id) == SelectSeq(pend, LAMBDA e : e.id = id)
TriggersOf(pend, st, id) ==
    [i \in 1..Len(PendingOf(pend, id)) |-> PendingOf(pend, id)[i].trigger]
        \o (IF id \in DOMAIN st THEN <<st[id].trigger>> ELSE <<>>)

\* C15 as stated: after a successful add_job with an id that is already
\* registered the engine holds exactly one trigger for the id, the one of
\* the new expression, and get_job_status(id).schedule is the new
\* expression.
C15_ReplaceAtomic ==
    [][\A id \in DOMAIN jobs :
          (lastOp'.op = "add_job" /\ lastOp'.result = "ok" /\ lastOp'.id = id)
              => /\ TriggersOf(pending', store', id) = <<lastOp'.schedule>>
                 /\ get_job_status(id)'[1].schedule = lastOp'.schedule]_vars

\* C15 amended: after a successful add_job with an id that is already
\* registered get_job_status(id).schedule is the new expression; on a
\* running engine the job store holds exactly one trigger for the id, the
\* new one; on an engine not started the new trigger is the last one
\* pending for the id, and start() leaves in the job store one trigger per
\* id, that of the expression registered last.  Every run the engine submits
\* is at a fire time of the expression registered for its job.
C15_ReplaceLastWins ==
    [][/\ (lastOp'.op = "add_job" /\ lastOp'.result = "ok")
             => \A id \in DOMAIN jobs :
                   id = lastOp'.id
                     => LET triggers == TriggersOf(pending', store', id)
                        IN /\ get_job_status(id)'[1].schedule
                                 = lastOp'.schedule
                           /\ triggers # <<>>
                           /\ triggers[Len(triggers)] = lastOp'.schedule
                           /\ engState = "running"
                                 => triggers = <<lastOp'.schedule>>
       /\ (lastOp'.op = "start" /\ lastOp'.result = "ok")
             => /\ pending' = <<>>
                /\ \A j \in DOMAIN store' :
                      store'[j].trigger = jobs[j].schedule
       /\ WakeupStep
             => \A t \in tasks' \ tasks :
                    FiresAt(jobs[t.job].schedule, t.run_time)]_vars

\* C15 witness: a job whose run under its first expression is still there
\* was registered again, on the running engine, with an expression that
\* never fires.
C15_Witness ==
    /\ lastOp.op = "add_job"
    /\ lastOp.result = "ok"
    /\ lastOp.schedule = Feb31
    /\ engState = "running"
    /\ TasksOf(lastOp.id) # {}
    /\ store[lastOp.id].trigger = Feb31

\* C17: after an execution has stored a batch, either every row of the
\* batch is committed, or a row was refused, no row of the batch is
\* committed and the execution ended with the exception; no row is left in
\* an open transaction.
C17_AllOrNothing ==
    (lastOp.op = "exec_end" /\ lastOp.batch # <<>>)
        => /\ db.txn = <<>>
           /\ IF \A i \in 1..Len(lastOp.batch) : lastOp.batch[i] = "ok"
              THEN /\ lastOp.rows = [i \in 1..Len(lastOp.batch) |-> lastOp.id]
                   /\ lastOp.result = "committed"
              ELSE /\ lastOp.rows = <<>>
                   /\ lastOp.result = "raised"

\* C17 witness: a batch whose second row was refused was stored, the first
\* row had been inserted.
C17_Witness ==
    /\ lastOp.op = "exec_end"
    /\ lastOp.batch = <<"ok", "bad">>
    /\ lastOp.rows = <<>>

\* C18: no transaction is open on the connection whenever the event loop
\* can run another execution, and a commit commits only rows of the
\* execution that issues it.
C18_StoresSerialized ==
    /\ db.txn = <<>>
    /\ lastOp.op = "exec_end"
          => \A i \in 1..Len(lastOp.rows) : lastOp.rows[i] = lastOp.id

\* C18 witness: an execution committed its batch while an execution of
\* another job was in flight.
C18_Witness ==
    /\ lastOp.op = "exec_end"
    /\ lastOp.rows # <<>>
    /\ \E t \in Executing : t.job # lastOp.id

\* Names of the entries of a sources list that are enabled and have a
\* schedule of five valid fields and the registered type.
SoundNames(srcs) ==
    {srcs[i].name : i \in {k \in 1..Len(srcs) :
                               /\ srcs[k].enabled
                               /\ srcs[k].schedule \in WellFormedSchedules
                               /\ srcs[k].type = "json_placeholder"}}

\* C16: initialize_services does not raise, whatever the sources are, and
\* when it has run the job ids registered with the Scheduler and handed to
\* the engine are exactly the names of the sources that are enabled and
\* have a schedule, a known type and a valid cron expression.
C16_SoundSourcesScheduled ==
    /\ (lastOp.op = "initialize" /\ db.conn = "open")
          => lastOp.result = "ok"
    /\ (lastOp.op = "initialize" /\ lastOp.result = "ok")
          => /\ DOMAIN jobs = SoundNames(sources)
             /\ {pending[i].id : i \in 1..Len(pending)} = SoundNames(sources)
             /\ \A j \in DOMAIN jobs : get_job_status(j) # <<>>

\* C16 witness: the list began with a source of an unknown type and ended
\* with a sound source, and the sound one alone got a job.
C16_Witness ==
    /\ lastOp.op = "initialize"
    /\ Len(sources) = MaxSources
    /\ sources[1].type = "other"
    /\ sources[MaxSources].name \in DOMAIN jobs
    /\ Cardinality(DOMAIN jobs) = 1

\* C19: once LogIngestApp.shutdown has closed the database connection it
\* stays closed: no execution stores on it or opens it again.
C19_NoStoreAfterClose == appPc = "stopped" => db.conn = "closed"

\* C20: the process ends with a non-zero exit status exactly when loading
\* the configuration failed or the start of the scheduler engine failed.
C20_ExitStatus ==
    exitCode # NoExit
        => ((exitCode # 0) <=> appPc \in {"failed_config", "failed_start"})


\* C21: the raw_data of every LogEntry constructed from a payload is a
\* well-formed serialized JSON value, whatever the kind of the payload
\* (object, array, number, boolean, null, string that is or is not JSON
\* text).
C21_RawDataWellFormed ==
    xform.pc = "done" =>
        \A i \in DOMAIN xform.log_entries :
            loads(xform.log_entries[i].raw_data).ok

\* C22: transform of a connector whose config has a name, over a list of
\* items, yields exactly one record per item, in input order, whose source
\* and event_type are those of the connector's
\* configuration, whose raw_data deserializes to the original item exactly,
\* and whose timestamp is a UTC instant.
C22_TransformRoundTrip ==
    (xform.pc = "done" /\ xform.data # <<>>
                       /\ "name" \in DOMAIN xform.config) =>
        /\ Len(xform.log_entries) = Len(xform.data)
        /\ \A i \in DOMAIN xform.log_entries :
              LET e == xform.log_entries[i]
                  raw == loads(e.raw_data)
              IN /\ e.source = xform.config["name"]
                 /\ e.event_type
                        = Get(xform.config, "event_type", "api_request")
                 /\ raw.ok
                 /\ raw.value = xform.data[i]
                 /\ e.timestamp = IsoFormatZ(now)

\* C23: within one execution the steps are taken in the order fetch,
\* transform, store, each after the one before it has returned; when fetch
\* returns no data, or transform returns no entries, the execution returns
\* normally, stores nothing and leaves the database as it was.
C23_StepsInOrder ==
    xform.pc = "done" =>
        LET fetched == xform.response # FetchFailure
        IN /\ xform.steps \in {<<"fetch">>, <<"fetch", "transform">>,
                               <<"fetch", "transform", "store">>}
           /\ Len(xform.steps) >= 2 <=> (fetched /\ xform.data # <<>>)
           /\ Len(xform.steps) = 3 <=>
                 (fetched /\ xform.data # <<>> /\ xform.log_entries # <<>>)
           /\ (fetched /\ (xform.data = <<>> \/ xform.log_entries = <<>>)) =>
                 /\ ~xform.raised
                 /\ lastOp.result = "ok"
                 /\ ~xform.committed
                 /\ xform.rows = <<>>
                 /\ xform.cursor = "none"
                 /\ db = OpenConnection

\* An execution whose fetch returned items and whose transform returned
\* no entry has ended.
C23_Witness ==
    /\ xform.pc = "done"
    /\ xform.response # FetchFailure
    /\ xform.data # <<>>
    /\ xform.log_entries = <<>>
    /\ xform.steps = <<"fetch", "transform">>
    /\ ~xform.raised

\* C24: when the fetch, the transform or the store step of an execution
\* raised an exception, the execution ends with the exception and nothing
\* of it is persisted; it never ends normally after a step failed.
C24_FailuresReRaised ==
    xform.pc = "done" =>
        LET fetchFailed == xform.response = FetchFailure
            transformFailed == xform.failed > 0
            storeFailed ==
                /\ Len(xform.steps) = 3
                /\ (xform.stored # "ok" \/ ~JsonbAccepts(xform.log_entries))
        IN (fetchFailed \/ transformFailed \/ storeFailed) =>
              /\ xform.raised
              /\ lastOp.result = "raised"
              /\ ~xform.committed
              /\ xform.rows = <<>>
              /\ db.txn = <<>>

\* C25: start() of the SchedulerService with no registered service does
\* nothing: the Scheduler is not started and get_status().running stays
\* false.  With at least one registered service it calls the Scheduler's
\* start(), and when that returns get_status().running is true.
C25_StartNeedsServices ==
    lastOp.op = "run" =>
        /\ DOMAIN services = {} =>
              /\ lastOp.result = "noop"
              /\ ~service_get_status.running
              /\ engState = "stopped"
              /\ store = EmptyDict
        /\ DOMAIN services # {} =>
              /\ lastOp.result \in {"ok", "raised"}
              /\ lastOp.result = "ok" =>
                    /\ service_get_status.running
                    /\ engState = "running"

\* start() was called with nothing registered.
C25_Witness ==
    /\ lastOp.op = "run"
    /\ lastOp.result = "noop"
    /\ DOMAIN services = {}
    /\ service_get_status.total_services = 0
    /\ ~service_get_status.running

\* C26: an add_job that raises changes nothing: the Scheduler's job
\* registry, the engine's triggers (pending and stored), the statistics
\* and the status of every job, a job registered under the same id
\* included, and the running state are as before the call.
C26_FailedAddJobChangesNothing ==
    [][(lastOp'.op = "add_job" /\ lastOp'.result = "raised") =>
          /\ UNCHANGED <<jobs, engineVars, historyVars, running>>
          /\ get_all_jobs_status' = get_all_jobs_status
          /\ is_running' = is_running]_vars

\* An add_job has raised for an id that was registered before with another
\* schedule, on a started Scheduler.
C26_Witness ==
    /\ lastOp.op = "add_job"
    /\ lastOp.result = "raised"
    /\ lastOp.id \in DOMAIN jobs
    /\ jobs[lastOp.id].schedule # lastOp.schedule
    /\ lastOp.id \in DOMAIN store
    /\ running

\* C27: after initialize_services on any list of source configs the
\* registered services and the scheduled jobs coincide: the keys of
\* SchedulerService.services are the job ids of the Scheduler, and
\* get_status().total_services is the length of get_status().jobs.
C27_ServicesAreJobs ==
    (lastOp.op = "initialize" /\ lastOp.result = "ok") =>
        /\ DOMAIN services = DOMAIN jobs
        /\ service_get_status.total_services
               = Cardinality(service_get_status.jobs)

\* C28: every execution of a job runs the connector built from the source
\* entry that supplied the schedule the job fires on, also when two
\* entries of the configuration have the same name.
C28_JobRunsItsOwnConnector ==
    \A t \in Executing :
        /\ t.job \in DOMAIN services
        /\ t.job \in DOMAIN jobs
        /\ ServiceOf(t).schedule = jobs[t.job].schedule

\* C29: every use of get_cursor ends its transaction and releases its
\* cursor: when the block and the commit raise nothing the rows of the
\* block are committed; when the block or the commit raises, the
\* transaction is rolled back and the exception leaves get_cursor; in both
\* cases the cursor is closed and no transaction stays open on the
\* connection.
C29_CursorAlwaysReleased ==
    (xform.pc = "done" /\ Len(xform.steps) = 3) =>
        LET refused == xform.stored # "ok"
                           \/ ~JsonbAccepts(xform.log_entries)
        IN /\ xform.cursor = "closed"
           /\ db.txn = <<>>
           /\ db.conn = "open"
           /\ ~refused => (/\ ~xform.raised
                           /\ xform.committed
                           /\ xform.rows # <<>>)
           /\ refused => (/\ xform.raised
                          /\ ~xform.committed
                          /\ xform.rows = <<>>)

\* A block whose rows were all taken and whose commit was refused has
\* been left.
C29_Witness ==
    /\ xform.pc = "done"
    /\ Len(xform.steps) = 3
    /\ xform.stored = "commit_error"
    /\ JsonbAccepts(xform.log_entries)
    /\ xform.raised
    /\ xform.cursor = "closed"
    /\ db.txn = <<>>

\* C30: in scheduled mode, once a signal has set the shutdown flag, the
\* run loop exits and LogIngestApp.shutdown runs, once and to its end: the
\* Scheduler is shut down and the database connection is closed, whether
\* the Scheduler was running with executions in flight, running idle, or
\* never started.
C30_SignalLeadsToShutdown ==
    /\ (shutdown_requested /\ appPc = "loop") ~>
           (/\ appPc = "stopped"
            /\ ~is_running
            /\ exitCode = 0)
    /\ [][/\ lastOp'.op = "app_shutdown" =>
                (/\ shutdown_requested
                 /\ appPc = "loop"
                 /\ appPc' = "stopped"
                 /\ ~is_running'
                 /\ db'.conn = "closed")
          /\ appPc = "stopped" =>
                (appPc' = "stopped" /\ lastOp'.op # "app_shutdown")]_vars

\* shutdown() has just run while an execution was in flight.
C30_Witness ==
    /\ lastOp.op = "app_shutdown"
    /\ appPc = "stopped"
    /\ shutdown_requested
    /\ Executing # {}
    /\ ~running
    /\ db.conn = "closed"

====
